---- MODULE Spec2Model ----
(***************************************************************************)
(* A model of matrixmath's flat-buffer Matrix class (matrixmath/Matrix)    *)
(* and of its array pool (matrixmath/arrays).                              *)
(*                                                                         *)
(* JavaScript numbers are modelled in exact arithmetic: a value is a pair  *)
(* <<n, d>>.  d > 0 is the rational n/d in lowest terms, d = 0 is one of   *)
(* the IEEE specials (NaN, +Infinity, -Infinity) and d < 0 is a value that *)
(* is not a number (undefined, null, a boolean, the receiver or the new    *)
(* instance a method returns, the outcome of a call that threw). Floating- *)
(* point rounding and the sign of zero are not modelled.                   *)
(*                                                                         *)
(* A Matrix instance is a record [rows, cols, length, vals, cache].  vals  *)
(* holds the indexed properties this[0], this[1], ... (index i of the code *)
(* is vals[i+1]); a property that does not exist reads as undefined, like  *)
(* in the code.  cache holds the two scratch matrices of _cache, each as a *)
(* sequence of length 0 (not created yet) or 1.  A property that is        *)
(* deleted is kept as undefined; the values of a matrix are its elements 0 *)
(* to length - 1.                                                          *)
(*                                                                         *)
(* The pool of matrixmath/arrays is one sequence of buffers in creation    *)
(* order; pool[length] of the code is the subsequence of the buffers with  *)
(* that originalLength.  An array handed out by the pool is named by its   *)
(* index in that sequence, and every read and write of such an array goes  *)
(* through the pool, so that two holders of one buffer would see each      *)
(* other's writes.                                                         *)
(***************************************************************************)
EXTENDS Integers, Sequences, FiniteSets, TLC

VARIABLES a, b, c, out, pool, pc, call, ret, calls

vars == <<a, b, c, out, pool, pc, call, ret, calls>>

----------------------------------------------------------------------------
(* JavaScript values *)

Undef == <<0, -1>>
Null == <<0, -2>>
NaN == <<0, 0>>
Inf == <<1, 0>>
NegInf == <<-1, 0>>
Num(n) == <<n, 1>>

Abs(x) == IF x < 0 THEN -x ELSE x
Sign(x) == IF x < 0 THEN -1 ELSE IF x > 0 THEN 1 ELSE 0
Max(x, y) == IF x > y THEN x ELSE y
Min(x, y) == IF x < y THEN x ELSE y

RECURSIVE Gcd(_, _)
Gcd(x, y) == IF y = 0 THEN x ELSE Gcd(y, x % y)

\* The rational n/d (d # 0) in lowest terms with a positive denominator.
Rat(n, d) ==
  LET g == Gcd(Abs(n), Abs(d))
      s == IF d < 0 THEN -1 ELSE 1
  IN <<(s * n) \div g, (s * d) \div g>>

\* typeof v === 'number'
IsNumber(v) == v[2] >= 0
IsFinite(v) == v[2] > 0
IsZero(v) == v[2] > 0 /\ v[1] = 0

\* The conversion the arithmetic operators apply to an operand.
ToNumber(v) == IF v = Undef THEN NaN ELSE IF v = Null THEN Num(0) ELSE v

\* !v
Falsy(v) == v = Undef \/ v = Null \/ v = NaN \/ IsZero(v)

\* x === y
StrictEq(x, y) == x = y /\ x # NaN

Mul(x, y) ==
  LET p == ToNumber(x)
      q == ToNumber(y)
  IN IF p = NaN \/ q = NaN THEN NaN
     ELSE IF p[2] = 0 \/ q[2] = 0
          THEN (IF p[1] = 0 \/ q[1] = 0 THEN NaN ELSE <<Sign(p[1]) * Sign(q[1]), 0>>)
          ELSE LET g1 == Gcd(Abs(p[1]), q[2])
                   g2 == Gcd(Abs(q[1]), p[2])
               IN Rat((p[1] \div g1) * (q[1] \div g2), (p[2] \div g2) * (q[2] \div g1))

Add(x, y) ==
  LET p == ToNumber(x)
      q == ToNumber(y)
  IN IF p = NaN \/ q = NaN THEN NaN
     ELSE IF p[2] = 0 /\ q[2] = 0 THEN (IF p = q THEN p ELSE NaN)
     ELSE IF p[2] = 0 THEN p
     ELSE IF q[2] = 0 THEN q
     ELSE LET g == Gcd(p[2], q[2])
          IN Rat(p[1] * (q[2] \div g) + q[1] * (p[2] \div g), (p[2] \div g) * q[2])

Neg(x) == Mul(Num(-1), x)

Sub(x, y) == Add(x, Neg(y))

Div(x, y) ==
  LET p == ToNumber(x)
      q == ToNumber(y)
  IN IF p = NaN \/ q = NaN THEN NaN
     ELSE IF p[2] = 0 /\ q[2] = 0 THEN NaN
     ELSE IF p[2] = 0 THEN (IF q[1] < 0 THEN Neg(p) ELSE p)
     ELSE IF q[2] = 0 THEN Num(0)
     ELSE IF q[1] = 0 THEN (IF p[1] = 0 THEN NaN ELSE <<Sign(p[1]), 0>>)
     ELSE LET g1 == Gcd(Abs(p[1]), Abs(q[1]))
              g2 == Gcd(p[2], q[2])
          IN Rat((p[1] \div g1) * (q[2] \div g2), (p[2] \div g2) * (q[1] \div g1))

\* F(e) with e evaluated once, before F is applied.  TLC passes arguments
\* unevaluated and may evaluate them again at each use, which makes a loop
\* written as a recursion exponential; binding the value first avoids that.
Bind(e, F(_)) == CHOOSE r \in {F(x) : x \in {e}} : TRUE

----------------------------------------------------------------------------
(* Arrays and indexed properties: index i of the code is position i + 1 *)

\* s[i], undefined when the property does not exist
At(s, i) == IF i >= 0 /\ i < Len(s) THEN s[i + 1] ELSE Undef

\* s[i] = v, which creates the property (and the holes before it)
Put(s, i, v) ==
  [j \in 1..Max(Len(s), i + 1) |->
     IF j = i + 1 THEN v ELSE IF j <= Len(s) THEN s[j] ELSE Undef]

\* array.length = n
SetLength(s, n) == [j \in 1..n |-> IF j <= Len(s) THEN s[j] ELSE Undef]

\* new Array(n)
NewArray(n) == [j \in 1..n |-> Undef]

----------------------------------------------------------------------------
(* matrixmath/arrays: the pool *)

\* An optional property (rows, cols of a buffer; a size hint): <<>> or <<n>>.
None == << >>
Some(n) == <<n>>

create(p, length) ==
  Append(p, [originalLength |-> length, inUse |-> FALSE, data |-> NewArray(length),
             rows |-> None, cols |-> None])

\* giveBack(array) for an array that has no property originalLength, given by
\* its values: the pool and the array after the call.
giveBackOther(p, array) == [pool |-> p, array |-> array]

\* getWithLength that takes the last array of the length whether or not it is
\* in use: a fault that the property C24 detects.
getWithLengthInUse(p, length) ==
  LET all == {i \in 1..Len(p) : p[i].originalLength = length}
      last == CHOOSE i \in all : \A j \in all : j <= i
      p1 == IF all = {} THEN create(p, length) ELSE p
      h == IF all = {} THEN Len(p1) ELSE last
  IN [pool |-> [p1 EXCEPT ![h].inUse = TRUE], h |-> h]

\* The result is the pool and the index h of the array handed out.
getWithLength(p, length) ==
  LET free == {i \in 1..Len(p) : p[i].originalLength = length /\ ~p[i].inUse}
      last == CHOOSE i \in free : \A j \in free : j <= i
      p1 == IF free = {} THEN create(p, length) ELSE p
      h == IF free = {} THEN Len(p1) ELSE last
  IN [pool |-> [p1 EXCEPT ![h].inUse = TRUE], h |-> h]

\* giveBack that does not reset the length of the array: a fault that the
\* property C25 detects.
giveBackKeepsLength(p, h) ==
  [p EXCEPT ![h] = [originalLength |-> @.originalLength,
                    inUse |-> FALSE,
                    data |-> [j \in 1..Len(@.data) |-> Undef],
                    rows |-> None,
                    cols |-> None]]

\* giveBack that leaves the values in the array: a fault that the property
\* C26 detects.
giveBackKeepsValues(p, h) ==
  [p EXCEPT ![h] = [originalLength |-> @.originalLength,
                    inUse |-> FALSE,
                    data |-> SetLength(@.data, @.originalLength),
                    rows |-> None,
                    cols |-> None]]

\* giveBack(array) for an array of the pool, named by its index h.
giveBack(p, h) ==
  [p EXCEPT ![h] = [originalLength |-> @.originalLength,
                    inUse |-> FALSE,
                    data |-> SetLength([j \in 1..Len(@.data) |-> Undef], @.originalLength),
                    rows |-> None,
                    cols |-> None]]

----------------------------------------------------------------------------
(* matrixmath/Matrix: construction and data access *)

NoCache == [matrixOfCoFactors |-> << >>, tempMatrix |-> << >>]

setEmptyData(this) ==
  [this EXCEPT !.vals = [j \in 1..Max(Len(@), this.length) |->
                           IF j <= this.length THEN Num(0) ELSE @[j]]]

setIdentityData(this) ==
  [this EXCEPT !.vals = [j \in 1..Max(Len(@), this.length) |->
                           IF j <= this.length
                           THEN (IF (j - 1) % (this.cols + 1) # 0 THEN Num(0) ELSE Num(1))
                           ELSE @[j]]]

\* new Matrix(opt_rows, opt_cols, opt_setInitial); an argument that is absent
\* is passed as 0 (opt_rows || 0, opt_cols || this.rows).
Matrix(opt_rows, opt_cols, opt_setInitial) ==
  LET rows == opt_rows
      cols == IF opt_cols # 0 THEN opt_cols ELSE rows
      this == [rows |-> rows, cols |-> cols, length |-> rows * cols,
               vals |-> << >>, cache |-> NoCache]
  IN IF opt_setInitial
     THEN (IF rows = cols THEN setIdentityData(this) ELSE setEmptyData(this))
     ELSE this

\* setData without the test rows * cols !== data.length: a fault that the
\* property C9 detects.
setDataUnchecked(this, data, opt_rows, opt_cols, isArray) ==
  LET rows == IF isArray THEN opt_rows ELSE None
      cols == IF isArray THEN opt_cols ELSE None
      n == Len(data)
  IN IF n # this.length /\ (rows = None \/ cols = None)
     THEN this
     ELSE [this EXCEPT
             !.vals = [j \in 1..Max(Len(@), n) |->
                         IF j <= n THEN data[j]
                         ELSE IF j <= this.length THEN Undef ELSE @[j]],
             !.length = n,
             !.rows = IF rows # None /\ rows[1] # 0 THEN rows[1] ELSE @,
             !.cols = IF cols # None /\ cols[1] # 0 THEN cols[1] ELSE @]

\* setData(data, opt_rows, opt_cols).  data is the array, or, when the values
\* are passed as separate arguments (isArray = FALSE), the arguments object.
setData(this, data, opt_rows, opt_cols, isArray) ==
  LET rows == IF isArray THEN opt_rows ELSE None
      cols == IF isArray THEN opt_cols ELSE None
      n == Len(data)
  IN IF n # this.length /\ (rows = None \/ cols = None)
     THEN this
     ELSE IF n # this.length /\ rows[1] * cols[1] # n
     THEN this
     ELSE [this EXCEPT
             !.vals = [j \in 1..Max(Len(@), n) |->
                         IF j <= n THEN data[j]
                         ELSE IF j <= this.length THEN Undef ELSE @[j]],
             !.length = n,
             !.rows = IF rows # None /\ rows[1] # 0 THEN rows[1] ELSE @,
             !.cols = IF cols # None /\ cols[1] # 0 THEN cols[1] ELSE @]

\* toArray(matrix, array): the array after the call
toArray(matrix, array) ==
  [j \in 1..Max(Len(array), matrix.length) |->
     IF j <= matrix.length THEN At(matrix.vals, j - 1) ELSE array[j]]

copy(this, matrix) ==
  LET differ == matrix.length # this.length
      length == matrix.length
  IN [this EXCEPT
        !.vals = [j \in 1..Max(Len(@), length) |->
                    IF j <= length THEN At(matrix.vals, j - 1)
                    ELSE IF j <= this.length THEN Undef ELSE @[j]],
        !.length = length,
        !.rows = IF differ THEN matrix.rows ELSE @,
        !.cols = IF differ THEN matrix.cols ELSE @]

clone(this) == copy(Matrix(this.rows, this.cols, FALSE), this)

isIdentity(this) ==
  \A i \in 0..(this.length - 1) :
     StrictEq(At(this.vals, i), IF i % (this.cols + 1) # 0 THEN Num(0) ELSE Num(1))

\* equals without the test of rows and cols: a fault that the property C13
\* detects.
equalsValuesOnly(this, input) ==
  \A i \in 0..(this.length - 1) : StrictEq(At(this.vals, i), At(input.vals, i))

\* input is a Matrix instance here; equals returns false for anything else.
equals(this, input) ==
  /\ this.rows = input.rows
  /\ this.cols = input.cols
  /\ \A i \in 0..(this.length - 1) : StrictEq(At(this.vals, i), At(input.vals, i))

----------------------------------------------------------------------------
(* Arguments of the chained operations.  An argument is a number, a Matrix   *)
(* instance other than the receiver (held by value), or the receiver itself  *)
(* ("self"), which reads as the receiver's current state.                    *)

EmptyMatrix == [rows |-> 0, cols |-> 0, length |-> 0, vals |-> << >>, cache |-> NoCache]

ArgNum(v) == [k |-> "num", m |-> EmptyMatrix, v |-> v]
ArgMat(m) == [k |-> "mat", m |-> m, v |-> Undef]
ArgSelf == [k |-> "self", m |-> EmptyMatrix, v |-> Undef]

\* The Matrix instance an argument refers to.
Deref(this, arg) == IF arg.k = "self" THEN this ELSE arg.m

\* this.equals(arg) for an argument of any kind: input instanceof Matrix is
\* false for a number.
equalsInput(this, arg) == arg.k # "num" /\ equals(this, Deref(this, arg))

----------------------------------------------------------------------------
(* Elementwise operations *)

RECURSIVE add(_, _)

\* add with the test of the columns only: a fault that the property C3 detects.
addColsOnly(this, matrices) ==
  IF matrices = << >> THEN this
  ELSE LET arg == Head(matrices)
           matrix == Deref(this, arg)
           numValues == this.length
       IN IF arg.k = "num" \/ matrix.cols # this.cols
          THEN add(this, Tail(matrices))
          ELSE Bind([this EXCEPT
                       !.vals = [j \in 1..Max(Len(@), numValues) |->
                                   IF j <= numValues
                                   THEN Add(At(@, j - 1), At(matrix.vals, j - 1))
                                   ELSE @[j]]],
                    LAMBDA this1 : add(this1, Tail(matrices)))

\* this.add(matrices...): the receiver after the call.
add(this, matrices) ==
  IF matrices = << >> THEN this
  ELSE LET arg == Head(matrices)
           matrix == Deref(this, arg)
           numValues == this.length
       IN IF arg.k = "num" \/ matrix.cols # this.cols \/ matrix.rows # this.rows
          THEN add(this, Tail(matrices))
          ELSE Bind([this EXCEPT
                       !.vals = [j \in 1..Max(Len(@), numValues) |->
                                   IF j <= numValues
                                   THEN Add(At(@, j - 1), At(matrix.vals, j - 1))
                                   ELSE @[j]]],
                    LAMBDA this1 : add(this1, Tail(matrices)))

RECURSIVE subtract(_, _)

\* subtract that takes the receiver from the argument: a fault that the
\* properties C18 and C19 detect.
subtractFromArgument(this, matrices) ==
  IF matrices = << >> THEN this
  ELSE LET arg == Head(matrices)
           matrix == Deref(this, arg)
           numValues == this.length
       IN IF arg.k = "num" \/ matrix.cols # this.cols \/ matrix.rows # this.rows
          THEN subtract(this, Tail(matrices))
          ELSE Bind([this EXCEPT
                       !.vals = [j \in 1..Max(Len(@), numValues) |->
                                   IF j <= numValues
                                   THEN Sub(At(matrix.vals, j - 1), At(@, j - 1))
                                   ELSE @[j]]],
                    LAMBDA this1 : subtract(this1, Tail(matrices)))

\* this.subtract(matrices...): the receiver after the call.
subtract(this, matrices) ==
  IF matrices = << >> THEN this
  ELSE LET arg == Head(matrices)
           matrix == Deref(this, arg)
           numValues == this.length
       IN IF arg.k = "num" \/ matrix.cols # this.cols \/ matrix.rows # this.rows
          THEN subtract(this, Tail(matrices))
          ELSE Bind([this EXCEPT
                       !.vals = [j \in 1..Max(Len(@), numValues) |->
                                   IF j <= numValues
                                   THEN Sub(At(@, j - 1), At(matrix.vals, j - 1))
                                   ELSE @[j]]],
                    LAMBDA this1 : subtract(this1, Tail(matrices)))

----------------------------------------------------------------------------
(* Chain multiplication *)

\* getData(matrix, array) on the pool's array h
getData(p, h, matrix) ==
  [p EXCEPT ![h].data = toArray(matrix, @),
            ![h].rows = Some(matrix.rows),
            ![h].cols = Some(matrix.cols)]

\* The while loop of the identity shortcut, from startIndex on: the final
\* startIndex and next (None when matrices[startIndex] is undefined).
RECURSIVE skipIdentities(_, _, _)
skipIdentities(this, matrices, startIndex) ==
  IF startIndex >= Len(matrices) THEN [startIndex |-> startIndex, next |-> None]
  ELSE LET next == matrices[startIndex + 1]
       IN IF next.k = "num"
          THEN (IF StrictEq(next.v, Num(1))
                THEN skipIdentities(this, matrices, startIndex + 1)
                ELSE [startIndex |-> startIndex, next |-> Some(next)])
          ELSE (IF ~isIdentity(Deref(this, next))
                THEN [startIndex |-> startIndex + 1, next |-> Some(next)]
                ELSE skipIdentities(this, matrices, startIndex + 1))

\* The scalar multiplication of the array newRows
scaleArray(p, newRows, scale) ==
  LET factor == Div(Num(1), scale)
  IN [p EXCEPT ![newRows].data =
        [n \in 1..Len(@) |-> Div(Mul(@[n], Mul(scale, factor)), factor)]]

\* The innermost loop of the matrix product for one cell of tempData, from
\* currentRow on: the value of tempData[outputIndex] after the loop, where
\* value is what it holds before.
RECURSIVE productCell(_, _, _, _, _, _, _)
productCell(newRows, newRowsCols, matrix, row, currentCol, currentRow, value) ==
  IF currentRow >= matrix.rows THEN value
  ELSE Bind(Add(IF Falsy(value) THEN Num(0) ELSE value,
                Mul(At(newRows, row * newRowsCols + currentRow),
                    At(matrix.vals, currentRow * matrix.cols + currentCol))),
            LAMBDA sum : productCell(newRows, newRowsCols, matrix, row, currentCol,
                                     currentRow + 1, sum))

\* The three nested loops of the matrix product.  Each (row, currentCol)
\* writes only tempData[row * tempData.cols + currentCol], and the loops read
\* only newRows and matrix (tempData is another array than newRows: it is
\* taken from the pool while newRows is in use), so the cells are independent.
productLoop(p, newRows, tempData, matrix, rowsInTarget, colsInCurrent, rowsInCurrent) ==
  [p EXCEPT ![tempData].data =
     [j \in 1..Max(Len(@), rowsInTarget * colsInCurrent * Sign(rowsInCurrent)) |->
        IF j <= rowsInTarget * colsInCurrent * Sign(rowsInCurrent)
        THEN productCell(p[newRows].data, p[newRows].cols[1], matrix,
                         (j - 1) \div p[tempData].cols[1], (j - 1) % p[tempData].cols[1],
                         0, At(@, j - 1))
        ELSE @[j]]]

RECURSIVE multiplyLoop(_, _, _, _, _)

\* multiplyLoop without the test colsInTarget !== rowsInCurrent: a fault that
\* the property C1 detects.
multiplyLoopUnchecked(this, matrices, i, p, newRows) ==
  IF i >= Len(matrices) THEN [pool |-> p, newRows |-> newRows]
  ELSE LET arg == matrices[i + 1]
           matrix == Deref(this, arg)
           rowsInTarget == p[newRows].rows[1]
           colsInTarget == p[newRows].cols[1]
           rowsInCurrent == matrix.rows
           colsInCurrent == matrix.cols
       IN IF arg.k = "num"
          THEN Bind(scaleArray(p, newRows, arg.v),
                    LAMBDA p1 : multiplyLoop(this, matrices, i + 1, p1, newRows))
          ELSE IF isIdentity(matrix)
          THEN multiplyLoop(this, matrices, i + 1, p, newRows)
          ELSE Bind(getWithLength(p, rowsInTarget * matrix.cols), LAMBDA got :
               Bind([got.pool EXCEPT ![got.h].rows = Some(rowsInTarget),
                                     ![got.h].cols = Some(matrix.cols)], LAMBDA p1 :
               Bind(productLoop(p1, newRows, got.h, matrix,
                                rowsInTarget, colsInCurrent, rowsInCurrent), LAMBDA p2 :
               Bind(giveBack(p2, newRows), LAMBDA p3 :
                    multiplyLoop(this, matrices, i + 1, p3, got.h)))))

\* The loop over the arguments, from index i on: the pool and the array that
\* holds the running result.
multiplyLoop(this, matrices, i, p, newRows) ==
  IF i >= Len(matrices) THEN [pool |-> p, newRows |-> newRows]
  ELSE LET arg == matrices[i + 1]
           matrix == Deref(this, arg)
           rowsInTarget == p[newRows].rows[1]
           colsInTarget == p[newRows].cols[1]
           rowsInCurrent == matrix.rows
           colsInCurrent == matrix.cols
       IN IF arg.k = "num"
          THEN Bind(scaleArray(p, newRows, arg.v),
                    LAMBDA p1 : multiplyLoop(this, matrices, i + 1, p1, newRows))
          ELSE IF isIdentity(matrix)
          THEN multiplyLoop(this, matrices, i + 1, p, newRows)
          ELSE IF colsInTarget # rowsInCurrent
          THEN multiplyLoop(this, matrices, i + 1, p, newRows)
          ELSE Bind(getWithLength(p, rowsInTarget * matrix.cols), LAMBDA got :
               Bind([got.pool EXCEPT ![got.h].rows = Some(rowsInTarget),
                                     ![got.h].cols = Some(matrix.cols)], LAMBDA p1 :
               Bind(productLoop(p1, newRows, got.h, matrix,
                                rowsInTarget, colsInCurrent, rowsInCurrent), LAMBDA p2 :
               Bind(giveBack(p2, newRows), LAMBDA p3 :
                    multiplyLoop(this, matrices, i + 1, p3, got.h)))))

\* multiplyFrom without the last arrays.giveBack(newRows): a fault that the
\* property C28 detects.
multiplyFromKeepsBuffer(this, p, matrices, startIndex) ==
  Bind(getWithLength(p, this.length), LAMBDA got :
  Bind(getData(got.pool, got.h, this), LAMBDA p1 :
  Bind(multiplyLoop(this, matrices, startIndex, p1, got.h), LAMBDA done :
       [this |-> setData(this, done.pool[done.newRows].data,
                         done.pool[done.newRows].rows, done.pool[done.newRows].cols, TRUE),
        pool |-> done.pool])))

\* The part of multiply after the identity shortcut, from startIndex on.
multiplyFrom(this, p, matrices, startIndex) ==
  Bind(getWithLength(p, this.length), LAMBDA got :
  Bind(getData(got.pool, got.h, this), LAMBDA p1 :
  Bind(multiplyLoop(this, matrices, startIndex, p1, got.h), LAMBDA done :
       [this |-> setData(this, done.pool[done.newRows].data,
                         done.pool[done.newRows].rows, done.pool[done.newRows].cols, TRUE),
        pool |-> giveBack(done.pool, done.newRows)])))

\* this.multiply(matrices...): the receiver and the pool after the call.
multiply(this, p, matrices) ==
  IF isIdentity(this)
  THEN Bind(skipIdentities(this, matrices, 0), LAMBDA skip :
         IF skip.next = None \/ (skip.next[1].k = "num" /\ Falsy(skip.next[1].v))
         THEN [this |-> this, pool |-> p]
         ELSE IF skip.next[1].k # "num"
         THEN Bind(copy(this, Deref(this, skip.next[1])), LAMBDA this1 :
                   multiplyFrom(this1, p, matrices, skip.startIndex))
         ELSE multiplyFrom(this, p, matrices, skip.startIndex))
  ELSE multiplyFrom(this, p, matrices, 0)

----------------------------------------------------------------------------
(* Power *)

\* power with one clone too many: a fault that the property C12 detects.
powerOneTooMany(this, p, n) ==
  IF this.rows # this.cols THEN [this |-> this, pool |-> p, threw |-> FALSE]
  ELSE IF n - 1 < 0 THEN [this |-> this, pool |-> p, threw |-> TRUE]
  ELSE Bind(multiply(this, p, [i \in 1..n |-> ArgMat(clone(this))]),
            LAMBDA r : [this |-> r.this, pool |-> r.pool, threw |-> FALSE])

\* power that creates power - 2 clones: a fault that the property C15 detects,
\* as new Array(-1) throws for power = 1.
powerOneTooFew(this, p, n) ==
  IF this.rows # this.cols THEN [this |-> this, pool |-> p, threw |-> FALSE]
  ELSE IF n - 2 < 0 THEN [this |-> this, pool |-> p, threw |-> TRUE]
  ELSE Bind(multiply(this, p, [i \in 1..(n - 2) |-> ArgMat(clone(this))]),
            LAMBDA r : [this |-> r.this, pool |-> r.pool, threw |-> FALSE])

\* this.power(n) for an integer n (the parameter power of the code): the
\* receiver and the pool after the call, and whether the call threw.
\* new Array(power - 1) throws a RangeError when power - 1 is negative.
power(this, p, n) ==
  IF this.rows # this.cols THEN [this |-> this, pool |-> p, threw |-> FALSE]
  ELSE IF n - 1 < 0 THEN [this |-> this, pool |-> p, threw |-> TRUE]
  ELSE Bind(multiply(this, p, [i \in 1..(n - 1) |-> ArgMat(clone(this))]),
            LAMBDA r : [this |-> r.this, pool |-> r.pool, threw |-> FALSE])

----------------------------------------------------------------------------
(* Transpose *)

\* transposeLoop that writes newData[col * cols + row]: a fault that the
\* property C11 detects on a matrix that is not square.
transposeLoopByCols(this, p, newData) ==
  [p EXCEPT ![newData].data =
     [j \in 1..Max(Len(@), this.rows * this.cols) |->
        IF j <= this.rows * this.cols
        THEN At(this.vals, ((j - 1) % this.cols) * this.cols + ((j - 1) \div this.cols))
        ELSE @[j]]]

\* The two nested loops of transpose.  Each (row, col) writes only
\* newData[col * rows + row] and reads only this, so the cells are
\* independent: index j is written from row j % rows and column j \div rows.
transposeLoop(this, p, newData) ==
  [p EXCEPT ![newData].data =
     [j \in 1..Max(Len(@), this.rows * this.cols) |->
        IF j <= this.rows * this.cols
        THEN At(this.vals, ((j - 1) % this.rows) * this.cols + ((j - 1) \div this.rows))
        ELSE @[j]]]

\* transpose without arrays.giveBack(newData): a fault that the property C29
\* detects.
transposeKeepsBuffer(this, p) ==
  Bind(getWithLength(p, this.length), LAMBDA got :
  Bind(transposeLoop(this, got.pool, got.h), LAMBDA p1 :
       [this |-> setData(this, p1[got.h].data, Some(this.cols), Some(this.rows), TRUE),
        pool |-> p1]))

\* this.transpose(): the receiver and the pool after the call.
transpose(this, p) ==
  Bind(getWithLength(p, this.length), LAMBDA got :
  Bind(transposeLoop(this, got.pool, got.h), LAMBDA p1 :
       [this |-> setData(this, p1[got.h].data, Some(this.cols), Some(this.rows), TRUE),
        pool |-> giveBack(p1, got.h)]))

----------------------------------------------------------------------------
(* Determinant and inverse *)

\* values.splice(row * colsPerRow, colsPerRow)
removeRow(values, row, colsPerRow) ==
  LET start == Min(row * colsPerRow, Len(values))
  IN SubSeq(values, 1, start) \o SubSeq(values, start + colsPerRow + 1, Len(values))

\* The values at the indexes i >= from with i % colsPerRow # col, in order.
RECURSIVE keepOtherColumns(_, _, _, _)
keepOtherColumns(values, col, colsPerRow, from) ==
  IF from >= Len(values) THEN << >>
  ELSE IF colsPerRow = 0 \/ from % colsPerRow # col
       THEN <<values[from + 1]>> \o keepOtherColumns(values, col, colsPerRow, from + 1)
       ELSE keepOtherColumns(values, col, colsPerRow, from + 1)

removeColumn(values, col, colsPerRow) == keepOtherColumns(values, col, colsPerRow, 0)

\* The minor of this without row and col, set on the scratch matrix: a pool
\* array takes a copy of the data, loses the row and the column, is handed to
\* matrix.setData and is given back.  The result is the scratch matrix and
\* the pool.
minor(this, p, matrix, row, col) ==
  Bind(getWithLength(p, this.length), LAMBDA got :
  Bind([j \in 1..Max(Len(got.pool[got.h].data), this.length) |->
          IF j <= this.length THEN At(this.vals, j - 1) ELSE got.pool[got.h].data[j]],
       LAMBDA copied :
  Bind(removeColumn(removeRow(copied, row, this.cols), col, this.cols), LAMBDA newData :
       [matrix |-> setData(matrix, newData, Some(this.rows - 1), Some(this.cols - 1), TRUE),
        pool |-> giveBack([got.pool EXCEPT ![got.h].data = newData], got.h)])))

\* The scratch matrices of this._cache, created on first use.
tempMatrixOf(this) ==
  IF this.cache.tempMatrix = << >>
  THEN Matrix(this.rows, this.cols, FALSE)
  ELSE this.cache.tempMatrix[1]

matrixOfCoFactorsOf(this) ==
  IF this.cache.matrixOfCoFactors = << >>
  THEN Matrix(this.rows, this.cols, FALSE)
  ELSE this.cache.matrixOfCoFactors[1]

RECURSIVE getDeterminant(_, _)
RECURSIVE determinantLoop(_, _, _)

\* determinantLoop without the alternating sign: a fault that the property C6
\* detects.
determinantLoopUnsigned(this, s, col) ==
  IF col >= this.cols THEN s
  ELSE Bind(minor(this, s.pool, s.matrix, 0, col), LAMBDA m :
       Bind(getDeterminant(m.matrix, m.pool), LAMBDA d :
       Bind([matrix |-> d.this,
             pool |-> d.pool,
             result |-> Add(s.result,
                            Mul(Mul(Num(1), At(this.vals, col)),
                                d.ret))],
            LAMBDA s1 : determinantLoop(this, s1, col + 1))))

\* The loop over the columns of the first row (4x4 and larger), from col on.
\* s is [matrix, pool, result]: the scratch matrix, the pool, the sum so far.
determinantLoop(this, s, col) ==
  IF col >= this.cols THEN s
  ELSE Bind(minor(this, s.pool, s.matrix, 0, col), LAMBDA m :
       Bind(getDeterminant(m.matrix, m.pool), LAMBDA d :
       Bind([matrix |-> d.this,
             pool |-> d.pool,
             result |-> Add(s.result,
                            Mul(Mul(Num(IF col % 2 # 0 THEN -1 ELSE 1), At(this.vals, col)),
                                d.ret))],
            LAMBDA s1 : determinantLoop(this, s1, col + 1))))

\* this.getDeterminant(): the receiver (its cache may change), the pool and
\* the value returned.
getDeterminant(this, p) ==
  IF this.rows # this.cols THEN [this |-> this, pool |-> p, ret |-> Null]
  ELSE IF this.rows = 1 THEN [this |-> this, pool |-> p, ret |-> At(this.vals, 0)]
  ELSE IF this.rows = 2
  THEN [this |-> this, pool |-> p,
        ret |-> Sub(Mul(At(this.vals, 0), At(this.vals, 3)),
                    Mul(At(this.vals, 1), At(this.vals, 2)))]
  ELSE IF this.rows = 3
  THEN LET m == this.vals
           ei_fh == Sub(Mul(At(m, 4), At(m, 8)), Mul(At(m, 5), At(m, 7)))
           di_fg == Sub(Mul(At(m, 3), At(m, 8)), Mul(At(m, 5), At(m, 6)))
           dh_eg == Sub(Mul(At(m, 3), At(m, 7)), Mul(At(m, 4), At(m, 6)))
       IN [this |-> this, pool |-> p,
           ret |-> Add(Sub(Mul(At(m, 0), ei_fh), Mul(At(m, 1), di_fg)),
                       Mul(At(m, 2), dh_eg))]
  ELSE IF this.rows >= 4
  THEN Bind(determinantLoop(this, [matrix |-> tempMatrixOf(this), pool |-> p,
                                   result |-> Num(0)], 0),
            LAMBDA s : [this |-> [this EXCEPT !.cache.tempMatrix = <<s.matrix>>],
                        pool |-> s.pool,
                        ret |-> s.result])
  ELSE [this |-> this, pool |-> p, ret |-> Undef]

\* The inner loop of invert over the columns of one row, from col on.
\* s is [matrixOfCoFactors, matrix, pool].
RECURSIVE coFactorColLoop(_, _, _, _)
coFactorColLoop(this, s, row, col) ==
  IF col >= this.cols THEN s
  ELSE LET rowAlternate == row % 2 = 1
           colAlternate == col % 2 = 1
       IN Bind(minor(this, s.pool, s.matrix, row, col), LAMBDA m :
          Bind(getDeterminant(m.matrix, m.pool), LAMBDA d :
          Bind([matrixOfCoFactors |->
                  [s.matrixOfCoFactors EXCEPT !.vals =
                     Put(@, row * s.matrixOfCoFactors.cols + col,
                         IF (rowAlternate /\ ~colAlternate) \/ (colAlternate /\ ~rowAlternate)
                         THEN Mul(d.ret, Num(-1))
                         ELSE d.ret)],
                matrix |-> d.this,
                pool |-> d.pool],
               LAMBDA s1 : coFactorColLoop(this, s1, row, col + 1))))

\* The outer loop of invert over the rows, from row on.
RECURSIVE coFactorLoop(_, _, _)
coFactorLoop(this, s, row) ==
  IF row >= this.rows THEN s
  ELSE Bind(coFactorColLoop(this, s, row, 0),
            LAMBDA s1 : coFactorLoop(this, s1, row + 1))

\* The sum of this[n] * matrixOfCoFactors[n] over n in from..numCols-1, added to sum.
RECURSIVE originalDeterminant(_, _, _, _)
originalDeterminant(this, matrixOfCoFactors, from, sum) ==
  IF from >= this.cols THEN sum
  ELSE originalDeterminant(this, matrixOfCoFactors, from + 1,
                           Add(sum, Mul(At(this.vals, from), At(matrixOfCoFactors.vals, from))))

\* invert2 without the test determinant === 0: a fault that the property C20
\* detects.
invert2Unchecked(this, p) ==
  LET determinant == getDeterminant(this, p).ret
      invertedDeterminant == Div(Num(1), determinant)
      m0 == Mul(invertedDeterminant, At(this.vals, 3))
      m1 == Mul(invertedDeterminant, Neg(At(this.vals, 1)))
      m2 == Mul(invertedDeterminant, Neg(At(this.vals, 2)))
      m3 == Mul(invertedDeterminant, At(this.vals, 0))
  IN [this |-> [this EXCEPT !.vals = Put(Put(Put(Put(@, 0, m0), 1, m1), 2, m2), 3, m3)],
      pool |-> p]

\* The closed form for a 2x2 matrix.
invert2(this, p) ==
  LET determinant == getDeterminant(this, p).ret
      invertedDeterminant == Div(Num(1), determinant)
      m0 == Mul(invertedDeterminant, At(this.vals, 3))
      m1 == Mul(invertedDeterminant, Neg(At(this.vals, 1)))
      m2 == Mul(invertedDeterminant, Neg(At(this.vals, 2)))
      m3 == Mul(invertedDeterminant, At(this.vals, 0))
  IN IF StrictEq(determinant, Num(0))
     THEN [this |-> this, pool |-> p]
     ELSE [this |-> [this EXCEPT !.vals = Put(Put(Put(Put(@, 0, m0), 1, m1), 2, m2), 3, m3)],
           pool |-> p]

\* this.invert(): the receiver and the pool after the call.
invert(this, p) ==
  IF this.rows # this.cols THEN [this |-> this, pool |-> p]
  ELSE IF this.rows = 2 THEN invert2(this, p)
  ELSE
    Bind(coFactorLoop(this, [matrixOfCoFactors |-> matrixOfCoFactorsOf(this),
                             matrix |-> tempMatrixOf(this),
                             pool |-> p], 0), LAMBDA s :
    Bind(originalDeterminant(this, s.matrixOfCoFactors, 0, Num(0)), LAMBDA det :
      IF StrictEq(det, Num(0))
      THEN [this |-> [this EXCEPT !.cache = [matrixOfCoFactors |-> <<s.matrixOfCoFactors>>,
                                             tempMatrix |-> <<s.matrix>>]],
            pool |-> s.pool]
      ELSE
        Bind(transpose(s.matrixOfCoFactors, s.pool), LAMBDA t :
        Bind(multiply(t.this, t.pool, <<ArgNum(Div(Num(1), det))>>), LAMBDA product :
             [this |-> [this EXCEPT
                          !.vals = [j \in 1..Max(Len(@), product.this.length) |->
                                      IF j <= product.this.length
                                      THEN At(product.this.vals, j - 1)
                                      ELSE @[j]],
                          !.cache = [matrixOfCoFactors |-> <<product.this>>,
                                     tempMatrix |-> <<s.matrix>>]],
              pool |-> product.pool]))))

----------------------------------------------------------------------------
(* Division *)

RECURSIVE divideLoop(_, _, _, _)

\* divideLoop without the i-- after an argument is removed: a fault that the
\* property C8 detects.
divideLoopNoStepBack(this, p, matrices, i) ==
  IF i >= Len(matrices) THEN [pool |-> p, matrices |-> matrices]
  ELSE LET matrix == Deref(this, matrices[i + 1])
       IN IF matrix.rows # matrix.cols
          THEN Bind(SubSeq(matrices, 1, i) \o SubSeq(matrices, i + 2, Len(matrices)),
                    LAMBDA rest : divideLoop(this, p, rest, i + 1))
          ELSE Bind(invert(clone(matrix), p), LAMBDA inv :
               Bind([matrices EXCEPT ![i + 1] = ArgMat(inv.this)], LAMBDA rest :
                    divideLoop(this, inv.pool, rest, i + 1)))

\* The loop of divide over its arguments, from index i on: the pool and the
\* arguments that are left, each square one replaced by its inverted clone.
divideLoop(this, p, matrices, i) ==
  IF i >= Len(matrices) THEN [pool |-> p, matrices |-> matrices]
  ELSE LET matrix == Deref(this, matrices[i + 1])
       IN IF matrix.rows # matrix.cols
          THEN Bind(SubSeq(matrices, 1, i) \o SubSeq(matrices, i + 2, Len(matrices)),
                    LAMBDA rest : divideLoop(this, p, rest, i))
          ELSE Bind(invert(clone(matrix), p), LAMBDA inv :
               Bind([matrices EXCEPT ![i + 1] = ArgMat(inv.this)], LAMBDA rest :
                    divideLoop(this, inv.pool, rest, i + 1)))

\* The instances passed to divide as they would be had divide called invert
\* on them and not on their clones: a fault that the property C30 detects.
argumentsAfterDivideInverted(this, matrices) ==
  [i \in 1..Len(matrices) |-> invert(Deref(this, matrices[i]), << >>).this]

\* The instances passed to divide as they are when it returns.  divide reads
\* rows and cols of an argument and calls clone on it, which reads it; invert
\* is called on the new instance that clone returns, and the inverse replaces
\* the argument in the list only, which is a copy of arguments.
argumentsAfterDivide(this, matrices) ==
  [i \in 1..Len(matrices) |-> Deref(this, matrices[i])]

\* this.divide(matrices...): the receiver and the pool after the call.
divide(this, p, matrices) ==
  Bind(divideLoop(this, p, matrices, 0), LAMBDA d : multiply(this, d.pool, d.matrices))

----------------------------------------------------------------------------
(* Static operations.  Each result is the first matrix after the call, the  *)
(* new instance that is returned, and the pool.                             *)

\* Matrix.add that adds into the first matrix instead of a clone of it: a
\* fault that the property C14 detects.
staticAddInPlace(firstMatrix, p, matrices) ==
  Bind(add(firstMatrix, matrices), LAMBDA outputMatrix :
       [first |-> outputMatrix, output |-> outputMatrix, pool |-> p])

\* Matrix.add(firstMatrix, matrices...)
staticAdd(firstMatrix, p, matrices) ==
  Bind(add(clone(firstMatrix), matrices), LAMBDA outputMatrix :
       [first |-> firstMatrix, output |-> outputMatrix, pool |-> p])

\* Matrix.subtract(firstMatrix, matrices...)
staticSubtract(firstMatrix, p, matrices) ==
  Bind(subtract(clone(firstMatrix), matrices), LAMBDA outputMatrix :
       [first |-> firstMatrix, output |-> outputMatrix, pool |-> p])

\* Matrix.multiply(firstMatrix, matrices...)
staticMultiply(firstMatrix, p, matrices) ==
  Bind(multiply(clone(firstMatrix), p, matrices), LAMBDA r :
       [first |-> firstMatrix, output |-> r.this, pool |-> r.pool])

\* Matrix.divide(firstMatrix, matrices...)
staticDivide(firstMatrix, p, matrices) ==
  Bind(divide(clone(firstMatrix), p, matrices), LAMBDA r :
       [first |-> firstMatrix, output |-> r.this, pool |-> r.pool])

----------------------------------------------------------------------------
(* Inputs.  The matrices a program holds are built with the constructor,    *)
(* setEmptyData, setIdentityData and setData.                               *)

\* Cell values written into the inputs range over -MaxVal..MaxVal.
MaxVal == 2

\* The longest argument list of a chained call.
MaxArgs == 2

\* The powers passed to power range over 0..MaxPower.
MaxPower == 3

Vals == (0 - MaxVal)..MaxVal

\* The shapes <<rows, cols>> of the receivers that get one value edited, and
\* of the matrices that are combined with each other.
SquareShapes == {<<1, 1>>, <<2, 2>>, <<3, 3>>, <<4, 4>>}

Shapes == {<<1, 1>>, <<2, 2>>, <<3, 3>>, <<2, 3>>, <<3, 2>>}

\* The values of the 4x4 matrix of the determinant test.
Dense == <<6, 1, 1, 3, 4, -2, 5, 6, 2, 8, 7, -3, 6, 2, 4, 1>>

\* The first n values of Dense, and cols values of it repeated on every row.
DenseData(n) == [j \in 1..n |-> Num(Dense[j])]

SameRowsData(n, cols) == [j \in 1..n |-> Num(Dense[((j - 1) % cols) + 1])]

\* new Matrix(rows, cols) followed by one of the calls that fill it.
Bases(shape) ==
  LET m == Matrix(shape[1], shape[2], TRUE)
  IN {setEmptyData(m),
      setIdentityData(m),
      setData(m, DenseData(m.length), None, None, TRUE),
      setData(m, SameRowsData(m.length, m.cols), None, None, TRUE)}

\* m, and m after a setData that replaces one of its values.
Edits(m) ==
  {m} \cup {setData(m, Put(m.vals, i, Num(v)), None, None, TRUE) :
              i \in 0..(m.length - 1), v \in Vals}

\* new Matrix()
Empty == Matrix(0, 0, TRUE)

DenseMatrix(shape) ==
  setData(Matrix(shape[1], shape[2], TRUE), DenseData(shape[1] * shape[2]), None, None, TRUE)

\* The square matrices with at most one value edited.
Edited == UNION {Edits(m) : m \in UNION {Bases(shape) : shape \in SquareShapes}}

\* The filled matrices of every shape, and the empty one.
Filled == UNION {Bases(shape) : shape \in Shapes} \cup {Empty}

\* The matrix of the power and transpose tests.
PowerExample ==
  setData(Matrix(2, 2, TRUE), <<Num(1), Num(2), Num(4), Num(1)>>, None, None, TRUE)

\* The two matrices of the README's example of subtract.
SubtractExample ==
  setData(Matrix(1, 3, TRUE), <<Num(1), Num(2), Num(3)>>, None, None, FALSE)

SubtractArgument ==
  setData(Matrix(1, 3, TRUE), <<Num(2), Num(4), Num(6)>>, None, None, FALSE)

\* The receivers and arguments of the documented examples.
Documented ==
  {<<PowerExample, DenseMatrix(<<2, 2>>), DenseMatrix(<<2, 2>>)>>,
   <<SubtractExample, SubtractArgument, DenseMatrix(<<2, 2>>)>>}

\* <<a, b, c>>: an edited receiver next to two fixed instances, a filled
\* receiver next to a filled b and a fixed c, or a documented example.
Scenarios ==
  (Edited \X {DenseMatrix(<<2, 2>>)} \X {DenseMatrix(<<2, 2>>)})
  \cup (Filled \X Filled \X {DenseMatrix(<<2, 2>>)})
  \cup Documented

\* The arrays passed to setData, with the size hints that go with them.
Datas == {DenseData(4), DenseData(6)}

Hints == {None, Some(2), Some(3)}

Powers == 0..MaxPower

\* The argument lists of a scalar multiplication: one number, or 2 and 3.
Scalars == {-1, 0, 1, 2, 6}

ScalarChains ==
  {<<ArgNum(Num(n))>> : n \in Scalars} \cup {<<ArgNum(Num(2)), ArgNum(Num(3))>>}

\* The values passed to equals that are no Matrix instance.
NotMatrices == {ArgNum(Num(0)), ArgNum(Num(1))}

----------------------------------------------------------------------------
(* The program: three Matrix instances a, b and c and the shared pool.  One  *)
(* public method is called on a, with b and c as the other instances; call   *)
(* records the call and the receiver as it was before, ret what it returned. *)
(* out holds the instance that a static operation has created, if any.       *)

\* The value of a method that returns its receiver for chaining.
This == <<0, -3>>

\* The outcome of a call that threw a RangeError instead of returning.
RangeError == <<0, -4>>

\* The value of a static operation: the new instance, which is out[1].
Created == <<0, -6>>

\* The booleans a method returns.
False == <<0, -5>>
True == <<1, -5>>

NoCall ==
  [op |-> "none", this |-> EmptyMatrix, pool |-> << >>, matrices |-> << >>,
   data |-> << >>, rows |-> None, cols |-> None, isArray |-> FALSE, power |-> 0,
   length |-> 0, h |-> 0]

Init ==
  /\ \E s \in Scenarios : a = s[1] /\ b = s[2] /\ c = s[3]
  /\ out = << >>
  /\ pool = << >>
  /\ pc = "ready"
  /\ call = NoCall
  /\ ret = Undef
  /\ calls = 0

\* The argument lists of a chained call: b and c in any order, with repeats.
Chains == UNION {[1..n -> {ArgMat(b), ArgMat(c)}] : n \in 1..MaxArgs}

Called(op, matrices) ==
  /\ call' = [NoCall EXCEPT !.op = op, !.this = a, !.pool = pool, !.matrices = matrices]
  /\ pc' = "done"
  /\ UNCHANGED <<b, c, calls>>

\* A static operation with a as first matrix has returned r.
Returned(op, matrices, r) ==
  /\ a' = r.first
  /\ out' = <<r.output>>
  /\ pool' = r.pool
  /\ ret' = Created
  /\ Called(op, matrices)

\* a.multiply(...)
CallMultiply ==
  /\ pc = "ready"
  /\ \E matrices \in Chains :
       /\ \E r \in {multiply(a, pool, matrices)} : a' = r.this /\ pool' = r.pool
       /\ Called("multiply", matrices)
  /\ ret' = This
  /\ UNCHANGED out

\* a.multiply(...) with numbers
CallMultiplyScalars ==
  /\ pc = "ready"
  /\ \E matrices \in ScalarChains :
       /\ \E r \in {multiply(a, pool, matrices)} : a' = r.this /\ pool' = r.pool
       /\ Called("multiply by numbers", matrices)
  /\ ret' = This
  /\ UNCHANGED out

\* The instance passed as arg, as it is in after, the instances of the
\* argument list matrices after a call.
InstanceAfter(arg, matrices, after) ==
  IF \E i \in 1..Len(matrices) : matrices[i] = arg
  THEN after[CHOOSE i \in 1..Len(matrices) : matrices[i] = arg]
  ELSE arg.m

\* a.divide(...)
CallDivide ==
  /\ pc = "ready"
  /\ \E matrices \in Chains :
       /\ \E r \in {divide(a, pool, matrices)} : a' = r.this /\ pool' = r.pool
       /\ \E after \in {argumentsAfterDivide(a, matrices)} :
            /\ b' = InstanceAfter(ArgMat(b), matrices, after)
            /\ c' = InstanceAfter(ArgMat(c), matrices, after)
       /\ call' = [NoCall EXCEPT !.op = "divide", !.this = a, !.pool = pool,
                                 !.matrices = matrices]
  /\ pc' = "done"
  /\ ret' = This
  /\ UNCHANGED <<out, calls>>

\* a.add(...)
CallAdd ==
  /\ pc = "ready"
  /\ \E matrices \in Chains :
       /\ a' = add(a, matrices)
       /\ Called("add", matrices)
  /\ ret' = This
  /\ UNCHANGED <<out, pool>>

\* a.subtract(...)
CallSubtract ==
  /\ pc = "ready"
  /\ \E matrices \in Chains :
       /\ a' = subtract(a, matrices)
       /\ Called("subtract", matrices)
  /\ ret' = This
  /\ UNCHANGED <<out, pool>>

\* a.invert()
CallInvert ==
  /\ pc = "ready"
  /\ \E r \in {invert(a, pool)} : a' = r.this /\ pool' = r.pool
  /\ Called("invert", << >>)
  /\ ret' = This
  /\ UNCHANGED out

\* a.getDeterminant()
CallGetDeterminant ==
  /\ pc = "ready"
  /\ \E r \in {getDeterminant(a, pool)} : a' = r.this /\ pool' = r.pool /\ ret' = r.ret
  /\ Called("getDeterminant", << >>)
  /\ UNCHANGED out

\* a.transpose()
CallTranspose ==
  /\ pc = "ready"
  /\ \E r \in {transpose(a, pool)} : a' = r.this /\ pool' = r.pool
  /\ Called("transpose", << >>)
  /\ ret' = This
  /\ UNCHANGED out

\* a.power(power)
CallPower ==
  /\ pc = "ready"
  /\ \E n \in Powers :
       /\ \E r \in {power(a, pool, n)} :
            /\ a' = r.this
            /\ pool' = r.pool
            /\ ret' = IF r.threw THEN RangeError ELSE This
       /\ call' = [NoCall EXCEPT !.op = "power", !.this = a, !.pool = pool, !.power = n]
  /\ pc' = "done"
  /\ UNCHANGED <<b, c, out, calls>>

\* a.equals(input) with input b, a itself or a value that is no Matrix
CallEquals ==
  /\ pc = "ready"
  /\ \E input \in {ArgMat(b), ArgSelf} \cup NotMatrices :
       /\ ret' = IF equalsInput(a, input) THEN True ELSE False
       /\ Called("equals", <<input>>)
  /\ UNCHANGED <<a, out, pool>>

\* a.copy(b)
CallCopy ==
  /\ pc = "ready"
  /\ a' = copy(a, b)
  /\ Called("copy", <<ArgMat(b)>>)
  /\ ret' = This
  /\ UNCHANGED <<out, pool>>

\* Matrix.add(a, ...)
CallStaticAdd ==
  /\ pc = "ready"
  /\ \E matrices \in Chains : Returned("Matrix.add", matrices, staticAdd(a, pool, matrices))

\* Matrix.subtract(a, ...)
CallStaticSubtract ==
  /\ pc = "ready"
  /\ \E matrices \in Chains :
       Returned("Matrix.subtract", matrices, staticSubtract(a, pool, matrices))

\* Matrix.multiply(a, ...)
CallStaticMultiply ==
  /\ pc = "ready"
  /\ \E matrices \in Chains :
       Returned("Matrix.multiply", matrices, staticMultiply(a, pool, matrices))

\* Matrix.divide(a, ...)
CallStaticDivide ==
  /\ pc = "ready"
  /\ \E matrices \in Chains :
       Returned("Matrix.divide", matrices, staticDivide(a, pool, matrices))

\* Matrix.add(a, ...).subtract(...): subtract, with the same arguments, called
\* on the instance that Matrix.add has returned
CallSubtractOnCreated ==
  /\ pc = "done"
  /\ call.op = "Matrix.add"
  /\ out' = <<subtract(out[1], call.matrices)>>
  /\ call' = [NoCall EXCEPT !.op = "Matrix.add.subtract", !.this = out[1], !.pool = pool,
                            !.matrices = call.matrices]
  /\ ret' = This
  /\ UNCHANGED <<a, b, c, pool, pc, calls>>

\* Matrix.add(a, ...).subtract(...).equals(a)
CallEqualsOnCreated ==
  /\ pc = "done"
  /\ call.op = "Matrix.add.subtract"
  /\ ret' = IF equalsInput(out[1], ArgMat(a)) THEN True ELSE False
  /\ call' = [call EXCEPT !.op = "Matrix.add.subtract.equals", !.this = out[1]]
  /\ UNCHANGED <<a, b, c, out, pool, pc, calls>>

\* a.setData(data, rows, cols) with an array, each hint given or not
CallSetData ==
  /\ pc = "ready"
  /\ \E data \in Datas, rows \in Hints, cols \in Hints :
       /\ a' = setData(a, data, rows, cols, TRUE)
       /\ call' = [NoCall EXCEPT !.op = "setData", !.this = a, !.pool = pool, !.data = data,
                                 !.rows = rows, !.cols = cols, !.isArray = TRUE]
  /\ pc' = "done"
  /\ ret' = This
  /\ UNCHANGED <<b, c, out, pool, calls>>

\* a.setData(v1, v2, ...) with the values as separate arguments
CallSetDataArguments ==
  /\ pc = "ready"
  /\ \E data \in Datas :
       /\ a' = setData(a, data, None, None, FALSE)
       /\ call' = [NoCall EXCEPT !.op = "setData", !.this = a, !.pool = pool, !.data = data]
  /\ pc' = "done"
  /\ ret' = This
  /\ UNCHANGED <<b, c, out, pool, calls>>

Next ==
  \/ CallMultiply
  \/ CallMultiplyScalars
  \/ CallDivide
  \/ CallAdd
  \/ CallSubtract
  \/ CallInvert
  \/ CallGetDeterminant
  \/ CallTranspose
  \/ CallPower
  \/ CallEquals
  \/ CallCopy
  \/ CallSetData
  \/ CallSetDataArguments
  \/ CallStaticAdd
  \/ CallStaticSubtract
  \/ CallStaticMultiply
  \/ CallStaticDivide
  \/ CallSubtractOnCreated
  \/ CallEqualsOnCreated

Spec == Init /\ [][Next]_vars

----------------------------------------------------------------------------
(* matrixmath/arrays on its own: holders take arrays from the pool, write   *)
(* to them, shorten them and give them back.                                *)

\* The pool holds at most MaxBuffers arrays.
MaxBuffers == 3

\* The lengths asked for.
Lengths == {1, 2}

\* The arrays given back that are not of the pool.
OtherArrays == {<< >>, <<Num(1), Num(2)>>}

\* The reference to the array h of the pool.
ArrayOfPool(h) == <<h, -7>>

PoolInit ==
  /\ a = Empty
  /\ b = Empty
  /\ c = Empty
  /\ out = << >>
  /\ pool = << >>
  /\ pc = "arrays"
  /\ call = NoCall
  /\ ret = Undef
  /\ calls = 0

\* arrays.getWithLength(length)
CallGetWithLength ==
  /\ pc = "arrays"
  /\ \E length \in Lengths :
       \E r \in {getWithLength(pool, length)} :
          /\ Len(r.pool) <= MaxBuffers
          /\ pool' = r.pool
          /\ ret' = ArrayOfPool(r.h)
          /\ call' = [NoCall EXCEPT !.op = "getWithLength", !.pool = pool,
                                    !.length = length, !.h = r.h]
  /\ UNCHANGED <<a, b, c, out, pc, calls>>

\* The holder of the array h writes a value to every index and sets the
\* properties rows and cols, as getData does.
HolderFills ==
  /\ pc = "arrays"
  /\ \E h \in 1..Len(pool) :
       /\ pool[h].inUse
       /\ pool' = [pool EXCEPT ![h].data = [j \in 1..Len(@) |-> Num(j)],
                               ![h].rows = Some(1),
                               ![h].cols = Some(Len(pool[h].data))]
       /\ call' = [NoCall EXCEPT !.op = "fill", !.pool = pool, !.h = h]
  /\ ret' = Undef
  /\ UNCHANGED <<a, b, c, out, pc, calls>>

\* The holder of the array h shortens it by one, as removeRow and
\* removeColumn do.
HolderShortens ==
  /\ pc = "arrays"
  /\ \E h \in 1..Len(pool) :
       /\ pool[h].inUse
       /\ Len(pool[h].data) >= 1
       /\ pool' = [pool EXCEPT ![h].data = SetLength(@, Len(@) - 1)]
       /\ call' = [NoCall EXCEPT !.op = "shorten", !.pool = pool, !.h = h]
  /\ ret' = Undef
  /\ UNCHANGED <<a, b, c, out, pc, calls>>

\* arrays.giveBack(array) by the holder of the array h
CallGiveBack ==
  /\ pc = "arrays"
  /\ \E h \in 1..Len(pool) :
       /\ pool[h].inUse
       /\ pool' = giveBack(pool, h)
       /\ call' = [NoCall EXCEPT !.op = "giveBack", !.pool = pool, !.h = h]
  /\ ret' = Undef
  /\ UNCHANGED <<a, b, c, out, pc, calls>>

\* arrays.giveBack(array) with an array that is not of the pool; call.data is
\* the array before the call and call.matrices[1].m.vals the array after it.
CallGiveBackOther ==
  /\ pc = "arrays"
  /\ \E array \in OtherArrays :
       \E r \in {giveBackOther(pool, array)} :
          /\ pool' = r.pool
          /\ call' = [NoCall EXCEPT !.op = "giveBack other", !.pool = pool, !.data = array,
                                    !.matrices = <<ArgMat([EmptyMatrix EXCEPT !.vals = r.array])>>]
  /\ ret' = Undef
  /\ UNCHANGED <<a, b, c, out, pc, calls>>

PoolNext ==
  \/ CallGetWithLength
  \/ HolderFills
  \/ HolderShortens
  \/ CallGiveBack
  \/ CallGiveBackOther

PoolSpec == PoolInit /\ [][PoolNext]_vars

----------------------------------------------------------------------------
(* A sequence of calls on the one instance a, which keeps its cache and     *)
(* shares the pool from call to call; calls counts the calls completed.     *)

\* A sequence has at most MaxCalls calls.
MaxCalls == 3

\* The n x n matrix that moves every coordinate to the next one.  Products,
\* powers and inverses of such matrices have the values 0 and 1 only.
Permutation(n) ==
  setData(Matrix(n, n, TRUE),
          [j \in 1..(n * n) |-> Num(IF (j - 1) % n = (((j - 1) \div n) + 1) % n THEN 1 ELSE 0)],
          None, None, TRUE)

SequenceInit ==
  /\ a \in {Permutation(3), Permutation(4)}
  /\ b = Permutation(3)
  /\ c = Permutation(2)
  /\ out = << >>
  /\ pool = << >>
  /\ pc = "ready"
  /\ call = NoCall
  /\ ret = Undef
  /\ calls = 0

\* The call has returned (or its error was caught) and the next one is made.
Again ==
  /\ pc = "done"
  /\ calls + 1 < MaxCalls
  /\ calls' = calls + 1
  /\ pc' = "ready"
  /\ call' = NoCall
  /\ ret' = Undef
  /\ UNCHANGED <<a, b, c, out, pool>>

SequenceNext ==
  \/ CallMultiply
  \/ CallDivide
  \/ CallPower
  \/ CallTranspose
  \/ CallInvert
  \/ CallGetDeterminant
  \/ CallCopy
  \/ Again

SequenceSpec == SequenceInit /\ [][SequenceNext]_vars

----------------------------------------------------------------------------
(* One call of multiply with a chain of n x n matrices and numbers on an     *)
(* n x n receiver: b, the identity matrix c, the receiver itself, and the    *)
(* numbers 1, 2 and 0.5 of the test of identity matrices and scalars.        *)

\* The sizes n of the receiver and the matrices of a chain.
Sizes == {1, 2, 3}

ChainInit ==
  /\ \E n \in Sizes :
       /\ a \in {Matrix(n, n, TRUE), DenseMatrix(<<n, n>>)}
       /\ b = DenseMatrix(<<n, n>>)
       /\ c = Matrix(n, n, TRUE)
  /\ out = << >>
  /\ pool = << >>
  /\ pc = "ready"
  /\ call = NoCall
  /\ ret = Undef
  /\ calls = 0

\* The arguments that a chain is made of.
ChainArguments ==
  {ArgMat(b), ArgMat(c), ArgSelf, ArgNum(Num(1)), ArgNum(Num(2)), ArgNum(Rat(1, 2))}

MixedChains == UNION {[1..n -> ChainArguments] : n \in 1..MaxArgs}

\* a.multiply(...) with matrices and numbers
CallMultiplyChain ==
  /\ pc = "ready"
  /\ \E matrices \in MixedChains :
       /\ \E r \in {multiply(a, pool, matrices)} : a' = r.this /\ pool' = r.pool
       /\ Called("multiply chain", matrices)
  /\ ret' = This
  /\ UNCHANGED out

ChainNext == CallMultiplyChain

ChainSpec == ChainInit /\ [][ChainNext]_vars

----------------------------------------------------------------------------
(* Reference definitions: the mathematics the properties compare with *)

\* The call that has returned is a call of op.
Done(op) == pc = "done" /\ call.op = op

\* The values of m: its elements 0 to length - 1.
Values(m) == [n \in 1..m.length |-> At(m.vals, n - 1)]

\* Two matrices have the same rows, cols, length and values.
Same(x, y) ==
  x.rows = y.rows /\ x.cols = y.cols /\ x.length = y.length /\ Values(x) = Values(y)

\* The Matrix instance passed as i-th argument of the call.
Arg(i) == call.matrices[i].m

\* The element at row i, column j of m.
Cell(m, i, j) == At(m.vals, i * m.cols + j)

\* The sum over t in from..(R.cols - 1) of R[i][t] * B[t][j].
RECURSIVE Dot(_, _, _, _, _)
Dot(R, B, i, j, from) ==
  IF from >= R.cols THEN Num(0)
  ELSE Add(Mul(Cell(R, i, from), Cell(B, from, j)), Dot(R, B, i, j, from + 1))

\* The values of the standard matrix product of R and B, row-major.
ProductValues(R, B) ==
  [n \in 1..(R.rows * B.cols) |-> Dot(R, B, (n - 1) \div B.cols, (n - 1) % B.cols, 0)]

\* The values of the n x n identity matrix, row-major.
IdentityValues(n) ==
  [k \in 1..(n * n) |-> IF (k - 1) \div n = (k - 1) % n THEN Num(1) ELSE Num(0)]

\* The square array of size n - 1 left when row i and column j are taken out
\* of the square array m of size n.
Without(m, n, i, j) ==
  [k \in 1..((n - 1) * (n - 1)) |->
     LET r == (k - 1) \div (n - 1)
         col == (k - 1) % (n - 1)
     IN m[(IF r < i THEN r ELSE r + 1) * n + (IF col < j THEN col ELSE col + 1) + 1]]

\* The determinant of the square array m of size n, by expansion along the
\* first column (the code expands along the first row).
RECURSIVE Determinant(_, _)
RECURSIVE ColumnExpansion(_, _, _)
ColumnExpansion(m, n, i) ==
  IF i >= n THEN Num(0)
  ELSE Add(Mul(Mul(Num(IF i % 2 = 0 THEN 1 ELSE -1), m[i * n + 1]),
               Determinant(Without(m, n, i, 0), n - 1)),
           ColumnExpansion(m, n, i + 1))

Determinant(m, n) ==
  IF n = 0 THEN Num(1) ELSE IF n = 1 THEN m[1] ELSE ColumnExpansion(m, n, 0)

\* The square matrix A multiplied n >= 1 times: A, A * A, (A * A) * A, ...
RECURSIVE MatrixPower(_, _)
MatrixPower(A, n) ==
  IF n <= 1 THEN Values(A)
  ELSE ProductValues([A EXCEPT !.vals = MatrixPower(A, n - 1)], A)

\* The sum, over the arguments from the i-th on that have the shape of this,
\* of their element n.
RECURSIVE SumOfMatching(_, _, _, _)
SumOfMatching(matrices, this, n, i) ==
  IF i > Len(matrices) THEN Num(0)
  ELSE Add(IF matrices[i].m.rows = this.rows /\ matrices[i].m.cols = this.cols
           THEN At(matrices[i].m.vals, n)
           ELSE Num(0),
           SumOfMatching(matrices, this, n, i + 1))

\* The inverted clones of the square arguments from the i-th on, in order.
RECURSIVE InvertedSquares(_, _)
InvertedSquares(matrices, i) ==
  IF i > Len(matrices) THEN << >>
  ELSE IF matrices[i].m.rows = matrices[i].m.cols
       THEN <<ArgMat(invert(clone(matrices[i].m), << >>).this)>> \o InvertedSquares(matrices, i + 1)
       ELSE InvertedSquares(matrices, i + 1)

----------------------------------------------------------------------------
(* Properties *)

C2_StandardProduct ==
  (Done("multiply") /\ Len(call.matrices) = 1 /\ Arg(1).rows = call.this.cols) =>
     /\ a.rows = call.this.rows
     /\ a.cols = Arg(1).cols
     /\ a.length = call.this.rows * Arg(1).cols
     /\ Values(a) = ProductValues(call.this, Arg(1))

\* C3: add (subtract) leaves rows, cols and length of the receiver unchanged
\* and makes each element its old value plus (minus) the sum of that element
\* over exactly the arguments that have the receiver's rows and cols.  The
\* arguments are the instances b and c, which are not the receiver.
C3_AddSubtract ==
  /\ Done("add") =>
       /\ a.rows = call.this.rows /\ a.cols = call.this.cols /\ a.length = call.this.length
       /\ \A n \in 0..(call.this.length - 1) :
            At(a.vals, n) = Add(At(call.this.vals, n),
                                SumOfMatching(call.matrices, call.this, n, 1))
  /\ Done("subtract") =>
       /\ a.rows = call.this.rows /\ a.cols = call.this.cols /\ a.length = call.this.length
       /\ \A n \in 0..(call.this.length - 1) :
            At(a.vals, n) = Sub(At(call.this.vals, n),
                                SumOfMatching(call.matrices, call.this, n, 1))

\* add was called with one argument of the receiver's shape and one of
\* another shape with the same number of columns, and changed the receiver.
C3_Witness ==
  /\ Done("add")
  /\ Len(call.matrices) = 2
  /\ Arg(1).rows # call.this.rows
  /\ Arg(1).cols = call.this.cols
  /\ Arg(2).rows = call.this.rows
  /\ Arg(2).cols = call.this.cols
  /\ ~Same(a, call.this)

\* C4: invert leaves rows, cols, length and values of the receiver unchanged
\* when the receiver is not square, and when it is square, of size 1 or more,
\* with determinant 0.
C4_InvertNoOp ==
  (/\ Done("invert")
   /\ \/ call.this.rows # call.this.cols
      \/ /\ call.this.rows >= 1
         /\ Determinant(Values(call.this), call.this.rows) = Num(0)) =>
     Same(a, call.this)

\* C5: for a square matrix M of size 1 or more with a determinant other than
\* 0, M.multiply(M.clone().invert()) is the identity matrix of that size.
C5_TimesInverse ==
  (/\ Done("invert")
   /\ call.this.rows = call.this.cols
   /\ call.this.rows >= 1
   /\ Determinant(Values(call.this), call.this.rows) # Num(0)) =>
     LET product == multiply(call.this, call.pool,
                             <<ArgMat(invert(clone(call.this), call.pool).this)>>).this
     IN /\ product.rows = call.this.rows
        /\ product.cols = call.this.cols
        /\ Values(product) = IdentityValues(call.this.rows)

\* C6: for a square matrix of size 1 to 4 getDeterminant returns the
\* mathematical determinant.
C6_Determinant ==
  (/\ Done("getDeterminant")
   /\ call.this.rows = call.this.cols
   /\ call.this.rows \in 1..4) =>
     ret = Determinant(Values(call.this), call.this.rows)

\* getDeterminant has returned the determinant of a 4x4 matrix that is not 0.
C6_Witness ==
  /\ Done("getDeterminant")
  /\ call.this.rows = 4
  /\ call.this.cols = 4
  /\ ~isIdentity(call.this)
  /\ ret = Determinant(Values(call.this), 4)
  /\ ret # Num(0)

\* C7: getDeterminant returns null exactly when the matrix is not square, and
\* a number for every square matrix.
C7_NullIffNotSquare ==
  Done("getDeterminant") =>
     /\ ret = Null <=> call.this.rows # call.this.cols
     /\ call.this.rows = call.this.cols => IsNumber(ret)

\* C8: A.divide(B1..BN) gives A the rows, cols and values of A.multiply of
\* the inverted clones of exactly the square arguments, in their order.
C8_DivideIsMultiplyByInverses ==
  Done("divide") =>
     Same(a, multiply(call.this, call.pool, InvertedSquares(call.matrices, 1)).this)

\* divide was called with an argument that is not square followed by a square
\* one that has an inverse, and changed the receiver.
C8_Witness ==
  /\ Done("divide")
  /\ Len(call.matrices) = 2
  /\ Arg(1).rows # Arg(1).cols
  /\ Arg(2).rows = Arg(2).cols
  /\ Arg(2).rows = call.this.cols
  /\ Determinant(Values(Arg(2)), Arg(2).rows) # Num(0)
  /\ ~isIdentity(Arg(2))
  /\ ~Same(a, call.this)

\* C9: setData leaves rows, cols, length and values of the receiver unchanged
\* when the number of values differs from the length and it is not the case
\* that rows and cols are both given with rows * cols the number of values;
\* with the values as separate arguments no size is given.
C9_SetDataNoOp ==
  (/\ Done("setData")
   /\ Len(call.data) # call.this.length
   /\ ~(/\ call.isArray
        /\ call.rows # None
        /\ call.cols # None
        /\ call.rows[1] * call.cols[1] = Len(call.data))) =>
     Same(a, call.this)

\* setData was called with an array of another length than the receiver's and
\* with both sizes given, their product not being the number of values.
C9_Witness ==
  /\ Done("setData")
  /\ call.isArray
  /\ call.this.length >= 1
  /\ Len(call.data) # call.this.length
  /\ call.rows # None
  /\ call.cols # None
  /\ call.rows[1] * call.cols[1] # Len(call.data)
  /\ Same(a, call.this)

\* C10: after a.copy(b), a has the rows, cols, length and values of b, and
\* a.equals(b) is true.
C10_CopyMakesEqual ==
  Done("copy") => (Same(a, b) /\ equals(a, b))

\* C11: for a matrix of r >= 1 rows and c >= 1 columns, transpose leaves the
\* receiver with rows = c, cols = r, the same length, and at row j, column i
\* the element the original has at row i, column j.
C11_Transpose ==
  (Done("transpose") /\ call.this.rows >= 1 /\ call.this.cols >= 1) =>
     /\ a.rows = call.this.cols
     /\ a.cols = call.this.rows
     /\ a.length = call.this.length
     /\ \A i \in 0..(call.this.rows - 1), j \in 0..(call.this.cols - 1) :
          Cell(a, j, i) = Cell(call.this, i, j)

\* transpose was called on a 2x3 matrix with six values, no two of its first
\* row equal, and has moved them.
C11_Witness ==
  /\ Done("transpose")
  /\ call.this.rows = 2
  /\ call.this.cols = 3
  /\ Cell(call.this, 0, 1) # Cell(call.this, 1, 0)
  /\ a.rows = 3
  /\ a.cols = 2
  /\ Cell(a, 1, 0) = Cell(call.this, 0, 1)
  /\ Values(a) # Values(call.this)

\* C12: for a square receiver A and an integer p >= 1, A.power(p) returns and
\* leaves A with its rows and cols and the values of the product of p copies
\* of the original A; for a receiver that is not square it leaves rows, cols,
\* length and values unchanged.
C12_Power ==
  (Done("power") /\ call.power >= 1) =>
     /\ ret = This
     /\ call.this.rows = call.this.cols =>
          /\ a.rows = call.this.rows
          /\ a.cols = call.this.cols
          /\ a.length = call.this.length
          /\ Values(a) = MatrixPower(call.this, call.power)
     /\ call.this.rows # call.this.cols => Same(a, call.this)

\* The test's example: [[1, 2], [4, 1]] raised to 3 is [[25, 22], [44, 25]].
C12_Witness ==
  /\ Done("power")
  /\ call.power = 3
  /\ call.this.rows = 2
  /\ call.this.cols = 2
  /\ Values(call.this) = <<Num(1), Num(2), Num(4), Num(1)>>
  /\ Values(a) = <<Num(25), Num(22), Num(44), Num(25)>>

C14_StaticOperations ==
  (pc = "done" /\ call.op \in {"Matrix.add", "Matrix.subtract", "Matrix.multiply",
                                "Matrix.divide"}) =>
     /\ ret = Created
     /\ Len(out) = 1
     /\ Same(a, call.this)
     /\ call.op = "Matrix.add" => Same(out[1], add(clone(call.this), call.matrices))
     /\ call.op = "Matrix.subtract" => Same(out[1], subtract(clone(call.this), call.matrices))
     /\ call.op = "Matrix.multiply" =>
          Same(out[1], multiply(clone(call.this), call.pool, call.matrices).this)
     /\ call.op = "Matrix.divide" =>
          Same(out[1], divide(clone(call.this), call.pool, call.matrices).this)

\* Matrix.add has returned an instance with other values than a, which has
\* kept its own.
C14_Witness ==
  /\ Done("Matrix.add")
  /\ ret = Created
  /\ Same(a, call.this)
  /\ a.length >= 1
  /\ out[1].rows = a.rows
  /\ out[1].cols = a.cols
  /\ Values(out[1]) # Values(a)

C16_LengthIsRowsTimesCols ==
  \A m \in {a, b, c} \cup {out[i] : i \in 1..Len(out)} :
     m.length = m.rows * m.cols /\ m.rows >= 0 /\ m.cols >= 0

\* C17: multiply with a number s, on any receiver, leaves rows and cols
\* unchanged and makes every element its old value times s; multiply(2, 3)
\* gives the elements that multiply(6) gives.
C17_ScalarMultiply ==
  Done("multiply by numbers") =>
     /\ a.rows = call.this.rows
     /\ a.cols = call.this.cols
     /\ Len(call.matrices) = 1 =>
          \A n \in 0..(call.this.length - 1) :
             At(a.vals, n) = Mul(At(call.this.vals, n), call.matrices[1].v)
     /\ Len(call.matrices) = 2 =>
          Values(a) = Values(multiply(call.this, call.pool, <<ArgNum(Num(6))>>).this)

\* C18: for A and B of the same rows and cols, with integer values,
\* Matrix.add(A, B).subtract(B).equals(A) is true.
C18_AddSubtractRoundTrip ==
  (/\ Done("Matrix.add.subtract.equals")
   /\ Len(call.matrices) = 1
   /\ Arg(1).rows = a.rows
   /\ Arg(1).cols = a.cols) =>
     ret = True

\* The round trip has returned true for a matrix B that has a value other
\* than 0 where A has one.
C18_Witness ==
  /\ Done("Matrix.add.subtract.equals")
  /\ Len(call.matrices) = 1
  /\ Arg(1).rows = a.rows
  /\ Arg(1).cols = a.cols
  /\ a.length >= 4
  /\ \E n \in 0..(a.length - 1) : At(Arg(1).vals, n) # Num(0) /\ At(a.vals, n) # Num(0)
  /\ ret = True

\* The call of the README's example of subtract has returned: the 1x3 matrix
\* [1, 2, 3] as receiver and the 1x3 matrix [2, 4, 6] as only argument.
ReadmeSubtractDone ==
  /\ Done("subtract")
  /\ call.this.rows = 1
  /\ call.this.cols = 3
  /\ Values(call.this) = <<Num(1), Num(2), Num(3)>>
  /\ Len(call.matrices) = 1
  /\ Arg(1).rows = 1
  /\ Arg(1).cols = 3
  /\ Values(Arg(1)) = <<Num(2), Num(4), Num(6)>>

C20_DivideBySingular ==
  (/\ Done("divide")
   /\ Len(call.matrices) = 1
   /\ Arg(1).rows = Arg(1).cols
   /\ Arg(1).rows >= 2
   /\ Determinant(Values(Arg(1)), Arg(1).rows) = Num(0)) =>
     /\ ret = This
     /\ Same(a, multiply(call.this, call.pool, call.matrices).this)

\* divide by a matrix with determinant 0 whose values are not 0 has changed a
\* receiver into the product with that matrix.
C20_Witness ==
  /\ Done("divide")
  /\ Len(call.matrices) = 1
  /\ Arg(1).rows = Arg(1).cols
  /\ Arg(1).rows >= 2
  /\ Arg(1).rows = call.this.cols
  /\ Determinant(Values(Arg(1)), Arg(1).rows) = Num(0)
  /\ \A n \in 0..(Arg(1).length - 1) : At(Arg(1).vals, n) # Num(0)
  /\ ~isIdentity(call.this)
  /\ Values(a) = ProductValues(call.this, Arg(1))
  /\ ~Same(a, call.this)

\* C22: when the receiver is an n x n identity matrix and the only argument B
\* of multiply is not an identity matrix and has B.rows # n, B is skipped:
\* the receiver is still the n x n identity matrix, with rows = n, cols = n.
C22_ShortcutKeepsSkipping ==
  (/\ Done("multiply")
   /\ call.this.rows = call.this.cols
   /\ call.this.rows >= 1
   /\ isIdentity(call.this)
   /\ Len(call.matrices) = 1
   /\ ~isIdentity(Arg(1))
   /\ Arg(1).rows # call.this.rows) =>
     /\ a.rows = call.this.rows
     /\ a.cols = call.this.cols
     /\ Values(a) = IdentityValues(call.this.rows)

\* C27: power(p) returns for every integer p >= 0 on every matrix, p = 0 on a
\* square matrix included.
C27_PowerReturns ==
  (Done("power") /\ call.power >= 0) => ret = This

\* C28: after every call of a public operation has returned, no buffer of the
\* pool is marked in use.
C28_AllGivenBack ==
  pc = "done" => \A i \in 1..Len(pool) : ~pool[i].inUse

\* multiply has returned after a product that took two buffers from the pool.
C28_Witness ==
  /\ Done("multiply")
  /\ Len(pool) >= 2
  /\ ~Same(a, call.this)
  /\ \A i \in 1..Len(pool) : ~pool[i].inUse

\* C24: getWithLength(L) returns an array of length L that was not marked in
\* use when the call was made; it creates an array only when the pool holds
\* no array of length L that is not in use, and else takes one of those; the
\* array returned is marked in use, and every other array is left as it was.
C24_GetWithLength ==
  (call.op = "getWithLength") =>
     LET before == call.pool
         h == call.h
         free == {i \in 1..Len(before) : before[i].originalLength = call.length
                                           /\ ~before[i].inUse}
     IN /\ ret = ArrayOfPool(h)
        /\ h \in 1..Len(pool)
        /\ Len(pool[h].data) = call.length
        /\ pool[h].originalLength = call.length
        /\ pool[h].inUse
        /\ h <= Len(before) => ~before[h].inUse
        /\ free = {} => (h = Len(before) + 1 /\ Len(pool) = Len(before) + 1)
        /\ free # {} => (h \in free /\ Len(pool) = Len(before))
        /\ \A i \in 1..Len(before) : i # h => pool[i] = before[i]

\* getWithLength has taken an array that was given back while another array
\* of the same length was in use.
C24_Witness ==
  /\ call.op = "getWithLength"
  /\ call.h <= Len(call.pool)
  /\ ~call.pool[call.h].inUse
  /\ \E i \in 1..Len(call.pool) :
       i # call.h /\ call.pool[i].inUse /\ call.pool[i].originalLength = call.length
  /\ pool[call.h].inUse

\* C25: giveBack of an array of the pool makes every index undefined, sets its
\* length to the original length, removes the properties rows and cols and
\* marks it not in use; giveBack of an array that is not of the pool changes
\* neither that array nor the pool.
C25_GiveBack ==
  /\ call.op = "giveBack" =>
       LET before == call.pool
           h == call.h
       IN /\ pool[h].data = NewArray(before[h].originalLength)
          /\ pool[h].originalLength = before[h].originalLength
          /\ pool[h].rows = None
          /\ pool[h].cols = None
          /\ ~pool[h].inUse
          /\ Len(pool) = Len(before)
          /\ \A i \in 1..Len(before) : i # h => pool[i] = before[i]
  /\ call.op = "giveBack other" =>
       /\ pool = call.pool
       /\ Arg(1).vals = call.data

\* giveBack was called for an array that its holder had filled and shortened.
C25_Witness ==
  /\ call.op = "giveBack"
  /\ Len(call.pool[call.h].data) < call.pool[call.h].originalLength
  /\ call.pool[call.h].rows # None
  /\ \E j \in 1..Len(call.pool[call.h].data) : call.pool[call.h].data[j] # Undef
  /\ Len(pool[call.h].data) = call.pool[call.h].originalLength

\* C23: invert() and getDeterminant() give, on an instance with a history of
\* calls, what they give on a new instance with the same rows, cols and
\* values (one whose cache is empty).
C23_HistoryFree ==
  /\ Done("invert") =>
       Same(a, invert([call.this EXCEPT !.cache = NoCache], call.pool).this)
  /\ Done("getDeterminant") =>
       /\ ret = getDeterminant([call.this EXCEPT !.cache = NoCache], call.pool).ret
       /\ Same(a, call.this)

\* The receiver after the call that was made, had the pool been empty when it
\* was made, so that every array the call takes first is a new one.
OnEmptyPool ==
  CASE call.op = "multiply" -> multiply(call.this, << >>, call.matrices).this
    [] call.op = "divide" -> divide(call.this, << >>, call.matrices).this
    [] call.op = "power" -> power(call.this, << >>, call.power).this
    [] call.op = "transpose" -> transpose(call.this, << >>).this
    [] call.op = "invert" -> invert(call.this, << >>).this
    [] call.op = "getDeterminant" -> getDeterminant(call.this, << >>).this
    [] OTHER -> a

\* An array of the pool that is not in use cannot be told from a new array of
\* its length.
LikeNew(array) ==
  /\ array.data = NewArray(array.originalLength)
  /\ array.rows = None
  /\ array.cols = None

RECURSIVE PlainFold(_, _, _, _)
PlainFold(R, this, matrices, i) ==
  IF i > Len(matrices) THEN R
  ELSE IF matrices[i].k = "num"
  THEN PlainFold([R EXCEPT !.vals = [n \in 1..R.length |-> Mul(At(R.vals, n - 1), matrices[i].v)]],
                 this, matrices, i + 1)
  ELSE PlainFold([R EXCEPT !.vals = ProductValues(R, Deref(this, matrices[i])),
                           !.cols = Deref(this, matrices[i]).cols,
                           !.length = R.rows * Deref(this, matrices[i]).cols],
                 this, matrices, i + 1)

\* C21: multiply on an n x n receiver with a chain of n x n matrices and
\* numbers other than 0 leaves the receiver with the rows, cols and values of
\* the plain fold of the chain.
C21_PlainFold ==
  Done("multiply chain") =>
     Same(a, PlainFold([call.this EXCEPT !.vals = Values(call.this)], call.this,
                       call.matrices, 1))

====
